---- MODULE Spec2Model ----
(***************************************************************************)
(* Model of custom_components/kodi_next_up/entities.py: the polling cycle  *)
(* KodiMediaEntity.async_update / _handle_result and the card view         *)
(* KodiNextUpTVEntity.extra_state_attributes.                              *)
(*                                                                         *)
(* An update cycle suspends only at `await self.kodi.call_method(...)`, so *)
(* it is two atomic steps: Begin (the connected check and the issue of the *)
(* call) and Resume (the call's outcome arrives and everything after the   *)
(* await runs to the end of the coroutine).                                *)
(***************************************************************************)
EXTENDS Integers, Sequences, FiniteSets, TLC

VARIABLES
    state,      \* self._state
    data,       \* self.data: the stored rows
    connected,  \* self.kodi._conn.connected
    pc,         \* per update cycle: "idle" or "calling" (suspended at the await)
    last,       \* how the most recently ended update() ended, and on which outcome
    attrs,      \* the card list most recently read from extra_state_attributes
    onRows,     \* history: the rows of the response whose handling last set STATE_ON
    hasOn       \* history: some cycle has ended in STATE_ON

vars == <<state, data, connected, pc, last, attrs, onRows, hasOn>>

----------------------------------------------------------------------------
(* Bounds *)

MaxRows == 2
NProc == 2
MaxRating == 14

Procs == 1..NProc

----------------------------------------------------------------------------
(* homeassistant.const values and Python's None *)

STATE_ON == "on"
STATE_OFF == "off"
STATE_PROBLEM == "problem"
STATE_UNKNOWN == "unknown"
None == "None"

HealthStates == {STATE_ON, STATE_OFF, STATE_PROBLEM, STATE_UNKNOWN}

----------------------------------------------------------------------------
(* Rows of the RPC result.  rating is in hundredths, runtime in seconds.   *)
(* The art mapping of every modelled row is empty.                         *)

Row(rating, runtime, playcount, season, episode) ==
    [title |-> "Pilot", showtitle |-> "Show", rating |-> rating,
     runtime |-> runtime, playcount |-> playcount,
     season |-> season, episode |-> episode]

RowA == Row(867, 1500, 0, 1, 3)
RowB == Row(0, 59, 2, 12, 100)

RowSet == {RowA, RowB}

RECURSIVE SeqsUpTo(_)
SeqsUpTo(n) ==
    IF n = 0 THEN {<<>>}
    ELSE LET shorter == SeqsUpTo(n - 1)
         IN  shorter \cup {Append(s, r) : s \in shorter, r \in RowSet}

RowLists == SeqsUpTo(MaxRows)

----------------------------------------------------------------------------
(* What `await self.kodi.call_method(...)` can deliver.                    *)
(*   result.type : "none" (None), "map" (a mapping), "other" (a truthy     *)
(*                 value that is not a mapping)                            *)
(*   result.error: the value under "error": "absent"; "falsy" (None or an  *)
(*                 empty mapping); "coded" (a mapping with a numeric       *)
(*                 code); "uncoded" (a non-empty mapping without a numeric *)
(*                 code); "nonmap" (a truthy value that is not a mapping)  *)
(*   result.hasRows, result.rows: the list under result_key, if present    *)
(*   result.extra: the mapping holds some other key (such as "limits")     *)
(*   args        : for a ProtocolError, the shape of exc.args: "full"      *)
(*                 (args[2]["error"] exists), "short" (fewer than three    *)
(*                 args), "nokey" (args[2] has no "error" key)             *)

ErrorValues == {"absent", "falsy", "coded", "uncoded", "nonmap"}

NoResult ==
    [type |-> "none", error |-> "absent", hasRows |-> FALSE, rows |-> <<>>,
     extra |-> FALSE]

OtherResult == [NoResult EXCEPT !.type = "other"]

MapResults ==
    {[type |-> "map", error |-> e, hasRows |-> h, rows |-> r, extra |-> x] :
        e \in ErrorValues, h \in BOOLEAN, r \in RowLists, x \in BOOLEAN}

Results ==
    {NoResult, OtherResult}
    \cup {m \in MapResults : /\ (~m.hasRows => m.rows = <<>>)
                             /\ (m.extra => m.error = "absent" /\ ~m.hasRows)}

Raised(kind, args) == [kind |-> kind, args |-> args, result |-> NoResult]
Returned(result) == [kind |-> "return", args |-> "na", result |-> result]

Outcomes ==
    {Raised("ProtocolError", a) : a \in {"full", "short", "nokey"}}
    \cup {Raised("TransportError", "na"), Raised("Exception", "na")}
    \cup {Returned(r) : r \in Results}

NoOutcome == Raised("none", "na")

----------------------------------------------------------------------------
(* Python truthiness *)

IsEmptyMap(result) ==
    /\ result.type = "map"
    /\ result.error = "absent"
    /\ ~result.hasRows
    /\ ~result.extra

Truthy(result) ==
    /\ result.type # "none"
    /\ ~IsEmptyMap(result)

ErrorTruthy(result) == result.error \in {"coded", "uncoded", "nonmap"}

----------------------------------------------------------------------------
(* The effect of a piece of code on the instance: the new _state and data, *)
(* and the exception that leaves it ("" when it completes normally).       *)

Done(st, dt) == [state |-> st, data |-> dt, exc |-> ""]
Raise(st, dt, exc) == [state |-> st, data |-> dt, exc |-> exc]

(* _handle_result with line 93 left out: STATE_ON without storing new_data *)
HandleResultNoStore(st, dt, result) ==
    IF result.type # "map" THEN Raise(st, dt, "AttributeError")
    ELSE IF ErrorTruthy(result) THEN
        CASE result.error = "coded" -> Done(STATE_PROBLEM, dt)
          [] result.error = "uncoded" -> Raise(st, dt, "TypeError")
          [] result.error = "nonmap" -> Raise(st, dt, "AttributeError")
    ELSE
        LET new_data == IF result.hasRows THEN result.rows ELSE <<>>
        IN  IF new_data = <<>> THEN Done(STATE_UNKNOWN, dt)
            ELSE Done(STATE_ON, dt)

(* _handle_result that stores the empty list before it returns on line 91 *)
HandleResultClears(st, dt, result) ==
    IF result.type # "map" THEN Raise(st, dt, "AttributeError")
    ELSE IF ErrorTruthy(result) THEN
        CASE result.error = "coded" -> Done(STATE_PROBLEM, dt)
          [] result.error = "uncoded" -> Raise(st, dt, "TypeError")
          [] result.error = "nonmap" -> Raise(st, dt, "AttributeError")
    ELSE
        LET new_data == IF result.hasRows THEN result.rows ELSE <<>>
        IN  IF new_data = <<>> THEN Done(STATE_UNKNOWN, <<>>)
            ELSE Done(STATE_ON, new_data)

(* _handle_result with result[self.result_key] for result.get(..., []) *)
HandleResultKeyError(st, dt, result) ==
    IF result.type # "map" THEN Raise(st, dt, "AttributeError")
    ELSE IF ErrorTruthy(result) THEN
        CASE result.error = "coded" -> Done(STATE_PROBLEM, dt)
          [] result.error = "uncoded" -> Raise(st, dt, "TypeError")
          [] result.error = "nonmap" -> Raise(st, dt, "AttributeError")
    ELSE IF ~result.hasRows THEN Raise(st, dt, "KeyError")
    ELSE IF result.rows = <<>> THEN Done(STATE_UNKNOWN, dt)
    ELSE Done(STATE_ON, result.rows)

(* _handle_result without the `if not new_data` branch of lines 85-91 *)
HandleResultNoEmptyCheck(st, dt, result) ==
    IF result.type # "map" THEN Raise(st, dt, "AttributeError")
    ELSE IF ErrorTruthy(result) THEN
        CASE result.error = "coded" -> Done(STATE_PROBLEM, dt)
          [] result.error = "uncoded" -> Raise(st, dt, "TypeError")
          [] result.error = "nonmap" -> Raise(st, dt, "AttributeError")
    ELSE
        LET new_data == IF result.hasRows THEN result.rows ELSE <<>>
        IN  Done(STATE_ON, new_data)

(* KodiMediaEntity._handle_result *)
HandleResult(st, dt, result) ==
    IF result.type # "map" THEN
        \* result.get on a value that is not a mapping
        Raise(st, dt, "AttributeError")
    ELSE IF ErrorTruthy(result) THEN
        CASE result.error = "coded" -> Done(STATE_PROBLEM, dt)
          [] result.error = "uncoded" ->
                \* "%d" % error.get("code") with no numeric code
                Raise(st, dt, "TypeError")
          [] result.error = "nonmap" ->
                \* error.get on a value that is not a mapping
                Raise(st, dt, "AttributeError")
    ELSE
        LET new_data == IF result.hasRows THEN result.rows ELSE <<>>
        IN  IF new_data = <<>> THEN Done(STATE_UNKNOWN, dt)
            ELSE Done(STATE_ON, new_data)

(* KodiMediaEntity.async_update from the return of the awaited call on *)
AfterCall(st, dt, o) ==
    CASE o.kind = "ProtocolError" ->
            \* error = exc.args[2]["error"] runs inside the except clause
            CASE o.args = "short" -> Raise(st, dt, "IndexError")
              [] o.args = "nokey" -> Raise(st, dt, "KeyError")
              [] OTHER -> Done(STATE_OFF, dt)
      [] o.kind = "TransportError" -> Done(STATE_OFF, dt)
      [] o.kind = "Exception" -> Done(STATE_OFF, dt)
      [] OTHER ->
            IF Truthy(o.result) THEN HandleResult(st, dt, o.result)
            ELSE Done(STATE_OFF, dt)

----------------------------------------------------------------------------
(* KodiNextUpTVEntity.extra_state_attributes.  A Python value whose type   *)
(* matters is a record of its type and value; str.format and the f-string  *)
(* are computed as text.                                                   *)

BLACK_STAR == "BLACK STAR"

DigitStr == <<"0", "1", "2", "3", "4", "5", "6", "7", "8", "9">>

RECURSIVE IntStr(_)
IntStr(n) ==
    IF n < 10 THEN DigitStr[n + 1]
    ELSE IntStr(n \div 10) \o DigitStr[(n % 10) + 1]

(* "{:0>2}".format(n): right-aligned in a field of width 2 filled with "0" *)
Pad2(n) == IF Len(IntStr(n)) < 2 THEN "0" \o IntStr(n) ELSE IntStr(n)

(* round(x, 1) of x = h / 100, in tenths.  Inputs with h % 10 = 5 are not  *)
(* drawn: the binary value of x decides them.                              *)
Round1(h) == (h + 5) \div 10

(* str() of the float t / 10 *)
FloatStr(t) == IntStr(t \div 10) \o "." \o IntStr(t % 10)

PyStr(text) == [type |-> "str", text |-> text, tenths |-> 0]
PyFloat(t) == [type |-> "float", text |-> "", tenths |-> t]

(* lines 151-154: the value stored under card["rating"] *)
RatingField(h) ==
    LET rating == Round1(h)
    IN  IF rating # 0 THEN PyStr(BLACK_STAR \o " " \o FloatStr(rating))
        ELSE PyFloat(rating)

Template ==
    [title_default |-> "$title", line1_default |-> "$episode",
     line2_default |-> "$firstaired", line3_default |-> "$rating - $runtime",
     line4_default |-> "$number", icon |-> "mdi:eye-off"]

CardOf(show) ==
    [episode |-> show.title,
     fanart |-> "",
     flag |-> (show.playcount = 0),
     number |-> "S" \o Pad2(show.season) \o "E" \o Pad2(show.episode),
     poster |-> "",
     runtime |-> show.runtime \div 60,
     title |-> show.showtitle,
     rating |-> RatingField(show.rating)]

(* card_json, the list that json.dumps encodes under attrs["data"] *)
ExtraStateAttributes(rows) ==
    <<Template>> \o [i \in 1..Len(rows) |-> CardOf(rows[i])]

----------------------------------------------------------------------------
(* The state after KodiMediaEntity.__init__ *)

NoLast == [exit |-> "none", exc |-> "", outcome |-> NoOutcome]

Init ==
    /\ state = None
    /\ data = <<>>
    /\ connected \in BOOLEAN
    /\ pc = [p \in Procs |-> "idle"]
    /\ last = NoLast
    /\ attrs = <<>>
    /\ onRows = <<>>
    /\ hasOn = FALSE

(* async_update without the connected check of lines 40-42 *)
BeginNoCheck(p) ==
    /\ pc[p] = "idle"
    /\ pc' = [pc EXCEPT ![p] = "calling"]
    /\ UNCHANGED <<state, data, connected, last, attrs, onRows, hasOn>>

(* async_update up to the await: the connected check, then the call *)
Begin(p) ==
    /\ pc[p] = "idle"
    /\ IF ~connected
       THEN /\ last' = [exit |-> "skipped", exc |-> "", outcome |-> NoOutcome]
            /\ UNCHANGED pc
       ELSE /\ pc' = [pc EXCEPT ![p] = "calling"]
            /\ UNCHANGED last
    /\ UNCHANGED <<state, data, connected, attrs, onRows, hasOn>>

(* async_update from the await to its end, on outcome o of the call *)
ResumeWith(p, o) ==
    /\ pc[p] = "calling"
    /\ LET post == AfterCall(state, data, o)
           endedOn == post.exc = "" /\ post.state = STATE_ON
       IN  /\ state' = post.state
           /\ data' = post.data
           /\ last' = [exit |-> IF post.exc = "" THEN "returned" ELSE "raised",
                       exc |-> post.exc, outcome |-> o]
           /\ onRows' = IF endedOn THEN o.result.rows ELSE onRows
           /\ hasOn' = (hasOn \/ endedOn)
    /\ pc' = [pc EXCEPT ![p] = "idle"]
    /\ UNCHANGED <<connected, attrs>>

Resume(p) == \E o \in Outcomes : ResumeWith(p, o)

(* the connection is made or lost, outside this component *)
ConnChange ==
    /\ connected' = ~connected
    /\ UNCHANGED <<state, data, pc, last, attrs, onRows, hasOn>>

(* the host reads extra_state_attributes *)
ReadAttrs ==
    /\ attrs' = ExtraStateAttributes(data)
    /\ UNCHANGED <<state, data, connected, pc, last, onRows, hasOn>>

(* One update cycle at a time, as the host schedules them *)
Next ==
    \/ Begin(1)
    \/ Resume(1)
    \/ ConnChange
    \/ ReadAttrs

Spec == Init /\ [][Next]_vars

(* Overlapping update cycles on the same instance *)
NextConc ==
    \/ \E p \in Procs : Begin(p)
    \/ \E p \in Procs : Resume(p)
    \/ ConnChange

SpecConc == Init /\ [][NextConc]_vars

----------------------------------------------------------------------------
(* The card transform on its own: one stored row drawn from the inputs     *)

RatingInputs == {h \in 0..MaxRating : h % 10 # 5} \cup {867}

CardRowInputs ==
    {Row(r, rt, n, s, e) :
        r \in RatingInputs, rt \in {59, 1500}, n \in {0, 1},
        s \in {1, 12}, e \in {3, 100}}

InitCard ==
    /\ data \in {<<r>> : r \in CardRowInputs}
    /\ state = STATE_ON
    /\ connected = TRUE
    /\ pc = [p \in Procs |-> "idle"]
    /\ last = [exit |-> "returned", exc |-> "",
               outcome |-> Returned([type |-> "map", error |-> "absent",
                                     hasRows |-> TRUE, rows |-> data,
                                     extra |-> FALSE])]
    /\ attrs = <<>>
    /\ onRows = data
    /\ hasOn = TRUE

NextCard == ReadAttrs

SpecCard == InitCard /\ [][NextCard]_vars

----------------------------------------------------------------------------
(* Properties *)

(* the step in which cycle p resumes from the await and runs to its end;   *)
(* last' then holds the outcome it resumed on                              *)
ResumeStep(p) == pc[p] = "calling" /\ pc'[p] = "idle"

Handled == last.outcome.result
HandledNext == last'.outcome.result

AllIdle == \A p \in Procs : pc[p] = "idle"

(* C1: when the call returns a mapping with no error field and a non-empty *)
(* list under the result key, update() ends with STATE_ON and the stored   *)
(* rows are exactly that list, whatever the state before.                  *)
C1_OnStoresRows ==
    [][\A p \in Procs :
        (/\ ResumeStep(p)
         /\ last'.outcome.kind = "return"
         /\ HandledNext.type = "map"
         /\ HandledNext.error = "absent"
         /\ HandledNext.hasRows
         /\ HandledNext.rows # <<>>)
        => (/\ state' = STATE_ON
            /\ data' = HandledNext.rows
            /\ last'.exit = "returned")]_vars

(* a cycle has just replaced stored rows by a different non-empty list *)
C1_Witness ==
    /\ AllIdle
    /\ last.exit = "returned"
    /\ last.outcome.kind = "return"
    /\ Handled.error = "absent"
    /\ Handled.rows = <<RowB, RowA>>
    /\ state = STATE_ON
    /\ data = <<RowB, RowA>>
    /\ attrs = <<Template, CardOf(RowA)>>

(* C2: while the connection is not connected, update() issues no call (no  *)
(* idle cycle starts calling) and, with no cycle in flight, leaves _state  *)
(* and the stored rows as they were.                                       *)
C2_NotConnectedNoOp ==
    [][~connected =>
        /\ \A p \in Procs : pc[p] = "idle" => pc'[p] = "idle"
        /\ AllIdle => (state' = state /\ data' = data)]_vars

(* update() was skipped with rows of an earlier cycle still stored *)
C2_Witness ==
    /\ ~connected
    /\ last.exit = "skipped"
    /\ AllIdle
    /\ state = STATE_ON
    /\ data = <<RowA>>

(* C3 as stated: whenever the call raises (ProtocolError, TransportError   *)
(* or anything else), update() ends with STATE_OFF and the stored rows     *)
(* unchanged.                                                              *)
C3_RaiseGivesOff ==
    [][\A p \in Procs :
        (/\ ResumeStep(p)
         /\ last'.outcome.kind \in {"ProtocolError", "TransportError", "Exception"})
        => (state' = STATE_OFF /\ data' = data)]_vars

(* C4 as stated: whenever the returned mapping carries an error, update()  *)
(* ends with STATE_PROBLEM and the stored rows unchanged, rows list in the *)
(* response or not.                                                        *)
C4_ErrorGivesProblem ==
    [][\A p \in Procs :
        (/\ ResumeStep(p)
         /\ last'.outcome.kind = "return"
         /\ HandledNext.type = "map"
         /\ ErrorTruthy(HandledNext))
        => (state' = STATE_PROBLEM /\ data' = data)]_vars

(* the returned value is a mapping with no error and an empty or missing   *)
(* list under the result key                                               *)
NoErrorNoRows(o) ==
    /\ o.kind = "return"
    /\ o.result.type = "map"
    /\ ~ErrorTruthy(o.result)
    /\ (~o.result.hasRows \/ o.result.rows = <<>>)

(* C5 as stated: a returned mapping with no error and an empty or missing  *)
(* rows list, the empty mapping included, ends in STATE_UNKNOWN.           *)
C5_EmptyGivesUnknown ==
    [][\A p \in Procs :
        (ResumeStep(p) /\ NoErrorNoRows(last'.outcome))
        => state' = STATE_UNKNOWN]_vars

(* C5 amended: a returned non-empty mapping with no error and an empty or  *)
(* missing rows list ends in STATE_UNKNOWN; the empty mapping ends in      *)
(* STATE_OFF.                                                              *)
C5_NonEmptyMapGivesUnknown ==
    [][\A p \in Procs :
        (ResumeStep(p) /\ NoErrorNoRows(last'.outcome))
        => /\ last'.exit = "returned"
           /\ state' = IF IsEmptyMap(HandledNext) THEN STATE_OFF
                       ELSE STATE_UNKNOWN]_vars

(* a mapping holding only an empty rows list was handled after STATE_ON *)
C5_Witness ==
    /\ AllIdle
    /\ last.exit = "returned"
    /\ NoErrorNoRows(last.outcome)
    /\ Handled.hasRows
    /\ ~IsEmptyMap(Handled)
    /\ hasOn
    /\ state = STATE_UNKNOWN

(* C6: the stored rows are the rows of the most recent cycle that ended in *)
(* STATE_ON; until a cycle has ended in STATE_ON nothing is stored, the    *)
(* cards are the template only and _state is not STATE_ON.                 *)
C6_DataIsLastOnRows ==
    /\ data = onRows
    /\ ~hasOn => /\ data = <<>>
                 /\ ExtraStateAttributes(data) = <<Template>>
                 /\ state # STATE_ON

(* rows of an earlier STATE_ON cycle are still stored after a later cycle  *)
(* ended in another state                                                  *)
C6_Witness ==
    /\ hasOn
    /\ AllIdle
    /\ last.exit = "returned"
    /\ state = STATE_PROBLEM
    /\ data = <<RowA, RowB>>
    /\ Handled.rows = <<RowB>>

(* C7 as stated: the cards read after an update() that handled a response  *)
(* with an empty rows list are the template only, and _state is            *)
(* STATE_UNKNOWN, whatever was stored before.                              *)
C7_EmptyRowsTemplateOnly ==
    [][(/\ AllIdle
        /\ last.exit = "returned"
        /\ NoErrorNoRows(last.outcome)
        /\ Handled.hasRows
        /\ attrs' # attrs)
       => (state = STATE_UNKNOWN /\ Len(attrs') = 1)]_vars

(* C8 as stated: no update() ends by raising, and one that made the call   *)
(* ends with _state one of the four health states.                         *)
C8_NeverRaises ==
    /\ last.exit # "raised"
    /\ last.exit = "returned" => state \in HealthStates

(* C9 as stated: the rating of the card of every stored row is the empty   *)
(* string when the rating rounds to zero, and otherwise the star, a space  *)
(* and the rounded value.                                                  *)
C9_RatingString ==
    \A i \in 1..Len(data) :
        Len(attrs) = Len(data) + 1 =>
            /\ attrs[i + 1].rating.type = "str"
            /\ attrs[i + 1].rating.text =
                  IF Round1(data[i].rating) = 0 THEN ""
                  ELSE BLACK_STAR \o " " \o FloatStr(Round1(data[i].rating))

(* C10: with update cycles overlapping, STATE_ON always goes with stored   *)
(* rows that are non-empty and are the rows of the response whose handling *)
(* last set STATE_ON, and the stored rows change only in a step that ends  *)
(* in STATE_ON.                                                            *)
C10_OnWithItsRows ==
    /\ [](state = STATE_ON => (data # <<>> /\ data = onRows))
    /\ [][data' # data => (state' = STATE_ON /\ data' = onRows')]_vars

(* STATE_ON was set from one response while two cycles are suspended *)
(* at the call                                                             *)
C10_Witness ==
    /\ \E p, q \in Procs : p # q /\ pc[p] = "calling" /\ pc[q] = "calling"
    /\ state = STATE_ON
    /\ last.exit = "returned"
    /\ data = <<RowB>>
    /\ Handled.rows = <<RowB>>

====
